---------------------------- MODULE Spec2Model ----------------------------
(***************************************************************************)
(* Model of src/src/daily_top10.py: the date-windowed collection scan      *)
(* (get_specific_date_papers), the top-10 ranking (save_top10) and the     *)
(* daily run (run_daily_top10 / analyze_and_generate_report).              *)
(*                                                                         *)
(* Time is counted in half days: Day = 2 units, so a UTC day d is the      *)
(* half-open range [d*Day, d*Day + Day).                                   *)
(***************************************************************************)
EXTENDS Integers, Sequences, FiniteSets, TLC

\* ------------------------------------------------------------------ bounds
MaxTime == 10        \* submission timestamps of feed items are 1..MaxTime
MaxFeed == 4         \* longest feed of the collection specification
MaxRunFeed == 3      \* longest feed of the daily-run specification
MaxScore == 2        \* scores are 1..MaxScore

\* ------------------------------------------------------- program constants
Day == 2             \* datetime.timedelta(days=1), in half days
MaxRetries == 3      \* error_retries < 3
TopN == 10           \* paper_scores[:10]

\* the ranking specification takes lists one longer than the cut
MaxPapers == TopN + 1

Times == 1..MaxTime
Scores == 1..MaxScore
TargetDates == {(MaxTime \div Day) - 1}
Nows == MaxTime..(MaxTime + 1)

VARIABLES
    stage,            \* position of run_daily_top10 in the pipeline
    feed,             \* items client.results(search) yields: their published times
    feed_error,       \* TRUE: the feed raises once its items are used up
    pos,              \* number of feed items consumed by the for loop
    target_date,      \* the target_date argument (a day number)
    target_start,     \* local target_start
    target_end,       \* local target_end
    papers,           \* local papers (and the caller's papers once returned)
    error_retries,    \* local error_retries
    scan_pc,          \* "idle", "scan", "returned", "raised"
    scan_err,         \* TRUE once the except branch of the scan has run
    analyzer,         \* the PaperQualityAnalyzer: score of each paper, by entry_id
    top10,            \* result of save_top10
    csv_written,      \* df.to_csv has run
    analysis_results, \* local analysis_results
    json_written,     \* json.dump has run
    report_rendered,  \* analysis_manager.generate_report has run
    email_sent,       \* email_sender.send_report has run
    error_log         \* what the except branch of run_daily_top10 printed

vars == <<stage, feed, feed_error, pos, target_date, target_start, target_end,
          papers, error_retries, scan_pc, scan_err, analyzer, top10,
          csv_written, analysis_results, json_written, report_rendered,
          email_sent, error_log>>

scanVars == <<pos, target_start, target_end, papers, error_retries, scan_pc,
              scan_err>>
reportVars == <<analyzer, top10, csv_written, analysis_results, json_written,
                report_rendered, email_sent>>

\* ---------------------------------------------------------------- helpers
\* datetime.strptime(target_date, '%Y-%m-%d').replace(tzinfo=UTC)
StrpTime(d) == d * Day

\* t.strftime('%Y-%m-%d')
StrfTime(t) == t \div Day

SeqsUpTo(S, n) == UNION {[1..k -> S] : k \in 0..n}

IsSortedDesc(s) == \A i \in 1..Len(s) : \A j \in 1..Len(s) : i < j => s[i] >= s[j]

Paper(i, t) == [entry_id |-> i, published |-> t]

\* the item the for loop reads next
NextItem == feed[pos + 1]

HasNext == pos < Len(feed)

\* the comparison of line 39 made strict
TooNewStrict(t) == t > target_end

\* line 39: paper.published >= target_end
TooNew(t) == t >= target_end

\* line 42: paper.published < target_start
TooOld(t) == t < target_start

\* the budget test of line 44 off by one
CanExtendOffByOne == Len(papers) = 0 /\ error_retries <= MaxRetries

\* line 44 without the test that nothing was collected
CanExtendNonEmpty == error_retries < MaxRetries

\* line 44: len(papers) == 0 and error_retries < 3
CanExtend == Len(papers) = 0 /\ error_retries < MaxRetries

Scanning == stage = "Collecting" /\ scan_pc = "scan"

\* ------------------------------------------------ get_specific_date_papers
\* lines 39-40: skip an item newer than the window
ScanSkip ==
    /\ Scanning /\ HasNext
    /\ TooNew(NextItem)
    /\ pos' = pos + 1
    /\ UNCHANGED <<stage, feed, feed_error, target_date, target_start,
                   target_end, papers, error_retries, scan_pc, scan_err,
                   reportVars, error_log>>

\* lines 42-49: extend the window start by one day and go on
ScanExtend ==
    /\ Scanning /\ HasNext
    /\ ~TooNew(NextItem) /\ TooOld(NextItem)
    /\ CanExtend
    /\ error_retries' = error_retries + 1
    /\ target_start' = target_start - Day
    /\ pos' = pos + 1
    /\ UNCHANGED <<stage, feed, feed_error, target_date, target_end, papers,
                   scan_pc, scan_err, reportVars, error_log>>

\* lines 42, 50, 59: an older item ends the scan
ScanBreak ==
    /\ Scanning /\ HasNext
    /\ ~TooNew(NextItem) /\ TooOld(NextItem)
    /\ ~CanExtend
    /\ pos' = pos + 1
    /\ scan_pc' = "returned"
    /\ UNCHANGED <<stage, feed, feed_error, target_date, target_start,
                   target_end, papers, error_retries, scan_err, reportVars,
                   error_log>>

\* lines 52-53: collect an item inside the window
ScanCollect ==
    /\ Scanning /\ HasNext
    /\ ~TooNew(NextItem) /\ ~TooOld(NextItem)
    /\ papers' = Append(papers, Paper(pos + 1, NextItem))
    /\ pos' = pos + 1
    /\ UNCHANGED <<stage, feed, feed_error, target_date, target_start,
                   target_end, error_retries, scan_pc, scan_err, reportVars,
                   error_log>>

\* an empty result at the end of the feed treated as a failure
ScanEndRaiseEmpty ==
    /\ Scanning /\ ~HasNext /\ ~feed_error
    /\ scan_pc' = IF Len(papers) = 0 THEN "raised" ELSE "returned"
    /\ UNCHANGED <<stage, feed, feed_error, pos, target_date, target_start,
                   target_end, papers, error_retries, scan_err, reportVars,
                   error_log>>

\* lines 37, 59: the feed is used up, return papers
ScanEnd ==
    /\ Scanning /\ ~HasNext /\ ~feed_error
    /\ scan_pc' = "returned"
    /\ UNCHANGED <<stage, feed, feed_error, pos, target_date, target_start,
                   target_end, papers, error_retries, scan_err, reportVars,
                   error_log>>

\* the except branch re-raising whatever was collected
ScanErrorAlwaysRaise ==
    /\ Scanning /\ ~HasNext /\ feed_error
    /\ scan_err' = TRUE
    /\ scan_pc' = "raised"
    /\ UNCHANGED <<stage, feed, feed_error, pos, target_date, target_start,
                   target_end, papers, error_retries, reportVars, error_log>>

\* lines 54-59: the feed raises; re-raise only when nothing was collected
ScanError ==
    /\ Scanning /\ ~HasNext /\ feed_error
    /\ scan_err' = TRUE
    /\ scan_pc' = IF Len(papers) = 0 THEN "raised" ELSE "returned"
    /\ UNCHANGED <<stage, feed, feed_error, pos, target_date, target_start,
                   target_end, papers, error_retries, reportVars, error_log>>

\* ---------------------------------------------------------------- save_top10
\* lines 63-76: one scored row per paper, rank 0
ScoreRows(ps, scorer) ==
    [i \in 1..Len(ps) |-> [rank |-> 0, url |-> ps[i].entry_id,
                           score |-> scorer[ps[i].entry_id],
                           published |-> StrfTime(ps[i].published)]]

\* a sort that reverses the rows of equal score
SortPosReversedTies(s, i) ==
    Cardinality({j \in 1..Len(s) :
                    \/ s[j].score > s[i].score
                    \/ s[j].score = s[i].score /\ j >= i})

\* where list.sort(key=score, reverse=True) puts row i: after every row of
\* higher score and after the earlier rows of equal score (the sort is
\* stable, and reverse=True keeps the original order of equal rows)
SortPos(s, i) ==
    Cardinality({j \in 1..Len(s) :
                    \/ s[j].score > s[i].score
                    \/ s[j].score = s[i].score /\ j <= i})

\* line 79: paper_scores.sort(key=lambda x: x['score'], reverse=True)
SortByScoreDesc(s) ==
    LET place == [i \in 1..Len(s) |-> SortPos(s, i)]
    IN [k \in 1..Len(s) |-> s[CHOOSE i \in 1..Len(s) : place[i] = k]]

\* the slice of line 82 one too long
Slice10OffByOne(s) == SubSeq(s, 1, IF Len(s) < TopN + 1 THEN Len(s) ELSE TopN + 1)

\* line 82: paper_scores[:10]
Slice10(s) == SubSeq(s, 1, IF Len(s) < TopN THEN Len(s) ELSE TopN)

\* lines 85-86: rank = 1-based position
AssignRanks(s) == [i \in 1..Len(s) |-> [s[i] EXCEPT !.rank = i]]

SaveTop10Result(ps, scorer) ==
    AssignRanks(Slice10(SortByScoreDesc(ScoreRows(ps, scorer))))

\* lines 61-107 (called at line 121): score, sort, cut, rank, write CSV
SaveTop10 ==
    /\ stage = "Ranking"
    /\ top10' = SaveTop10Result(papers, analyzer)
    /\ csv_written' = TRUE
    /\ stage' = "Analyzing"
    /\ UNCHANGED <<feed, feed_error, target_date, scanVars, analyzer,
                   analysis_results, json_written, report_rendered,
                   email_sent, error_log>>

\* line 65 or 101-104 raises; caught at lines 169-170
SaveTop10Fail ==
    /\ stage = "Ranking"
    /\ stage' = "Failed"
    /\ error_log' = "rank"
    /\ UNCHANGED <<feed, feed_error, target_date, scanVars, reportVars>>

\* ------------------------------------------------------------ run_daily_top10
\* what the query of lines 25-31 can yield in a daily run: items in
\* descending order of submission, then the end of the feed or an error
RunFeeds == {f \in SeqsUpTo(Times, MaxRunFeed) : IsSortedDesc(f)}

\* lines 157-164 and 21-37: compute yesterday's date, call the collector,
\* which sets its locals and opens the feed
StartRun ==
    /\ stage = "Idle"
    /\ feed' \in RunFeeds
    /\ feed_error' \in BOOLEAN
    /\ \E now \in Nows :
          /\ target_date' = StrfTime(now - Day)
          /\ target_start' = StrpTime(StrfTime(now - Day))
          /\ target_end' = StrpTime(StrfTime(now - Day)) + Day
    /\ papers' = <<>>
    /\ error_retries' = 0
    /\ pos' = 0
    /\ scan_pc' = "scan"
    /\ stage' = "Collecting"
    /\ UNCHANGED <<scan_err, reportVars, error_log>>

EntryIds(ps) == {ps[i].entry_id : i \in 1..Len(ps)}

\* lines 59, 164-168 and 111-118: the collector returned, its locals are gone;
\* the report step builds its PaperQualityAnalyzer
CollectReturn ==
    /\ stage = "Collecting" /\ scan_pc = "returned"
    /\ analyzer' \in [EntryIds(papers) -> Scores]
    /\ stage' = "Ranking"
    /\ scan_pc' = "idle"
    /\ pos' = 0
    /\ target_start' = 0
    /\ target_end' = 0
    /\ error_retries' = 0
    /\ UNCHANGED <<feed, feed_error, target_date, papers, scan_err, top10,
                   csv_written, analysis_results, json_written,
                   report_rendered, email_sent, error_log>>

\* lines 57 and 169-170: the collector raised, the run logs it and ends
CollectRaise ==
    /\ stage = "Collecting" /\ scan_pc = "raised"
    /\ stage' = "Failed"
    /\ error_log' = "collect"
    /\ scan_pc' = "idle"
    /\ pos' = 0
    /\ target_start' = 0
    /\ target_end' = 0
    /\ error_retries' = 0
    /\ UNCHANGED <<feed, feed_error, target_date, papers, scan_err,
                   reportVars>>

\* ------------------------------------------------ analyze_and_generate_report
MoreToAnalyze == Len(analysis_results) < Len(top10)

\* lines 125-132: analyze the next top-10 paper, attach date and url
AnalyzePaper ==
    /\ stage = "Analyzing" /\ MoreToAnalyze
    /\ LET paper == top10[Len(analysis_results) + 1]
       IN analysis_results' = Append(analysis_results,
              [submission_date |-> paper.published, html_url |-> paper.url])
    /\ UNCHANGED <<stage, feed, feed_error, target_date, scanVars, analyzer,
                   top10,
                   csv_written, json_written, report_rendered, email_sent,
                   error_log>>

\* a failed analysis logged and skipped, the loop going on
AnalyzePaperFailSkip ==
    /\ stage = "Analyzing" /\ MoreToAnalyze
    /\ LET paper == top10[Len(analysis_results) + 1]
       IN analysis_results' = Append(analysis_results,
              [submission_date |-> paper.published, html_url |-> paper.url,
               error |-> TRUE])
    /\ error_log' = "analysis"
    /\ UNCHANGED <<stage, feed, feed_error, target_date, scanVars, analyzer,
                   top10, csv_written, json_written, report_rendered,
                   email_sent>>

\* line 127 raises; nothing catches it before lines 169-170
AnalyzePaperFail ==
    /\ stage = "Analyzing" /\ MoreToAnalyze
    /\ stage' = "Failed"
    /\ error_log' = "analysis"
    /\ UNCHANGED <<feed, feed_error, target_date, scanVars, reportVars>>

\* lines 125, 135-136: the loop is over, name the JSON file
AnalyzeLoopEnd ==
    /\ stage = "Analyzing" /\ ~MoreToAnalyze
    /\ stage' = "Persisting"
    /\ UNCHANGED <<feed, feed_error, target_date, scanVars, reportVars,
                   error_log>>

\* lines 138-141: write the analysis JSON
Persist ==
    /\ stage = "Persisting"
    /\ json_written' = TRUE
    /\ stage' = "Rendering"
    /\ UNCHANGED <<feed, feed_error, target_date, scanVars, analyzer, top10,
                   csv_written, analysis_results, report_rendered, email_sent,
                   error_log>>

\* lines 138-139 raise
PersistFail ==
    /\ stage = "Persisting"
    /\ stage' = "Failed"
    /\ error_log' = "persist"
    /\ UNCHANGED <<feed, feed_error, target_date, scanVars, reportVars>>

\* lines 144-146: render the HTML report
Render ==
    /\ stage = "Rendering"
    /\ report_rendered' = TRUE
    /\ stage' = "Notifying"
    /\ UNCHANGED <<feed, feed_error, target_date, scanVars, analyzer, top10,
                   csv_written, analysis_results, json_written, email_sent,
                   error_log>>

\* line 145 raises
RenderFail ==
    /\ stage = "Rendering"
    /\ stage' = "Failed"
    /\ error_log' = "render"
    /\ UNCHANGED <<feed, feed_error, target_date, scanVars, reportVars>>

\* lines 149-153 and 168: send the email, return
Notify ==
    /\ stage = "Notifying"
    /\ email_sent' = TRUE
    /\ stage' = "Done"
    /\ UNCHANGED <<feed, feed_error, target_date, scanVars, analyzer, top10,
                   csv_written, analysis_results, json_written,
                   report_rendered, error_log>>

\* a failed dispatch sent back to the rendering step
NotifyFailRetry ==
    /\ stage = "Notifying"
    /\ stage' = "Rendering"
    /\ error_log' = "notify"
    /\ UNCHANGED <<feed, feed_error, target_date, scanVars, reportVars>>

\* lines 150-151 raise
NotifyFail ==
    /\ stage = "Notifying"
    /\ stage' = "Failed"
    /\ error_log' = "notify"
    /\ UNCHANGED <<feed, feed_error, target_date, scanVars, reportVars>>

\* ---------------------------------------------------------- specifications
NoReport ==
    /\ analyzer = <<>>
    /\ top10 = <<>>
    /\ csv_written = FALSE
    /\ analysis_results = <<>>
    /\ json_written = FALSE
    /\ report_rendered = FALSE
    /\ email_sent = FALSE
    /\ error_log = "none"

\* the daily run, before run_daily_top10 is called
Init ==
    /\ stage = "Idle"
    /\ feed = <<>>
    /\ feed_error = FALSE
    /\ pos = 0
    /\ target_date = 0
    /\ target_start = 0
    /\ target_end = 0
    /\ papers = <<>>
    /\ error_retries = 0
    /\ scan_pc = "idle"
    /\ scan_err = FALSE
    /\ NoReport

ScanNext ==
    \/ ScanSkip
    \/ ScanExtend
    \/ ScanBreak
    \/ ScanCollect
    \/ ScanEnd
    \/ ScanError

Next ==
    \/ StartRun
    \/ ScanSkip
    \/ ScanExtend
    \/ ScanBreak
    \/ ScanCollect
    \/ ScanEnd
    \/ ScanError
    \/ CollectReturn
    \/ CollectRaise
    \/ SaveTop10
    \/ SaveTop10Fail
    \/ AnalyzePaper
    \/ AnalyzePaperFail
    \/ AnalyzeLoopEnd
    \/ Persist
    \/ PersistFail
    \/ Render
    \/ RenderFail
    \/ Notify
    \/ NotifyFail

Spec == Init /\ [][Next]_vars

\* the run is one thread that runs to its end: every call returns or raises
FairSpec == Spec /\ WF_vars(Next)

\* get_specific_date_papers called on any feed, after lines 21-37
InitCollect ==
    /\ stage = "Collecting"
    /\ feed \in SeqsUpTo(Times, MaxFeed)
    /\ feed_error \in BOOLEAN
    /\ pos = 0
    /\ target_date \in TargetDates
    /\ target_start = StrpTime(target_date)
    /\ target_end = StrpTime(target_date) + Day
    /\ papers = <<>>
    /\ error_retries = 0
    /\ scan_pc = "scan"
    /\ scan_err = FALSE
    /\ NoReport

SpecCollect == InitCollect /\ [][ScanNext]_vars

\* save_top10 called on any list of papers
InitRank ==
    /\ stage = "Ranking"
    /\ feed = <<>>
    /\ feed_error = FALSE
    /\ pos = 0
    /\ target_date \in TargetDates
    /\ target_start = 0
    /\ target_end = 0
    /\ papers \in {[i \in 1..n |-> Paper(i, StrpTime(target_date))] :
                     n \in 0..MaxPapers}
    /\ error_retries = 0
    /\ scan_pc = "idle"
    /\ scan_err = FALSE
    /\ analyzer \in [1..Len(papers) -> Scores]
    /\ top10 = <<>>
    /\ csv_written = FALSE
    /\ analysis_results = <<>>
    /\ json_written = FALSE
    /\ report_rendered = FALSE
    /\ email_sent = FALSE
    /\ error_log = "none"

RankNext ==
    \/ SaveTop10
    \/ SaveTop10Fail

SpecRank == InitRank /\ [][RankNext]_vars

\* ------------------------------------------------------------------ claims
TargetStart == StrpTime(target_date)

InRange(t, lo, hi) == lo <= t /\ t < hi

Collected(i) == \E j \in 1..Len(papers) : papers[j] = Paper(i, feed[i])

ScanOver == scan_pc \in {"returned", "raised"}

\* C1: every collected record has its submission time in
\* [target_start, target_end), where target_end is the end of the target day
\* and target_start is the start of the target day when no extension happened
\* and the extended start otherwise.
C1_CollectedInWindow ==
    stage = "Collecting" =>
        /\ target_end = TargetStart + Day
        /\ error_retries = 0 => target_start = TargetStart
        /\ target_start <= TargetStart
        /\ \A j \in 1..Len(papers) :
              InRange(papers[j].published, target_start, target_end)

C1_Witness ==
    /\ scan_pc = "returned"
    /\ error_retries > 0
    /\ Len(papers) >= 2
    /\ \E j \in 1..Len(papers) : papers[j].published < TargetStart
    /\ \E j \in 1..Len(papers) : papers[j].published >= TargetStart

\* C2: during the scan the window start has been extended at most 3 times,
\* each extension moved it back by exactly one day and never forward, and the
\* window end never changes.
C2_BoundedExtension ==
    /\ [](stage = "Collecting" =>
            /\ error_retries \in 0..MaxRetries
            /\ target_start = TargetStart - error_retries * Day
            /\ target_end = TargetStart + Day)
    /\ [][/\ target_end' = target_end
          /\ \/ target_start' = target_start /\ error_retries' = error_retries
             \/ /\ target_start' = target_start - Day
                /\ error_retries' = error_retries + 1]_vars

C2_Witness ==
    /\ scan_pc = "returned"
    /\ error_retries = MaxRetries
    /\ target_start = TargetStart - MaxRetries * Day
    /\ pos = MaxRetries + 1
    /\ feed[pos] < target_start
    /\ Len(papers) = 0

\* C3 as stated: the call raises only if nothing was collected, the window
\* was already extended 3 times and the feed raised; a feed that ends
\* without raising makes the call return.
C3_Original ==
    /\ scan_pc = "raised" =>
          Len(papers) = 0 /\ error_retries = MaxRetries /\ scan_err
    /\ (ScanOver /\ ~scan_err) => scan_pc = "returned"

\* C3 amended: the call raises only if nothing was collected and the feed
\* raised, whatever the number of extensions made; a feed that ends without
\* raising makes the call return.
C3_RaiseOnlyEmptyAndError ==
    /\ scan_pc = "raised" =>
          Len(papers) = 0 /\ scan_err /\ feed_error /\ ~HasNext
    /\ (ScanOver /\ ~scan_err) => scan_pc = "returned"

C3_Witness ==
    /\ scan_pc = "raised"
    /\ error_retries < MaxRetries
    /\ pos > 0

C3_WitnessEmptyReturn ==
    /\ scan_pc = "returned"
    /\ ~scan_err
    /\ ~HasNext
    /\ Len(papers) = 0
    /\ error_retries = MaxRetries

\* C4: when the feed raises after at least one paper was collected, the call
\* returns, and returns exactly the in-window items read since the first
\* collected one, in feed order.
C4_PartialReturn ==
    (stage = "Collecting" /\ scan_err /\ Len(papers) > 0) =>
        /\ scan_pc = "returned"
        /\ \A j \in 1..Len(papers) : \A k \in 1..Len(papers) :
              j < k => papers[j].entry_id < papers[k].entry_id
        /\ \A j \in 1..Len(papers) :
              /\ papers[j].entry_id \in 1..Len(feed)
              /\ papers[j].published = feed[papers[j].entry_id]
        /\ \A i \in 1..Len(feed) :
              (i >= papers[1].entry_id /\ InRange(feed[i], target_start, target_end))
                  <=> Collected(i)

C4_Witness ==
    /\ scan_pc = "returned"
    /\ scan_err
    /\ Len(papers) >= 2
    /\ papers[1].entry_id > 1

Min(a, b) == IF a < b THEN a ELSE b

Ranked == stage = "Analyzing" /\ csv_written

\* C5: save_top10 returns min(10, n) rows, their scores never increase, and
\* the row at position p has rank p.
C5_TopTenRanked ==
    Ranked =>
        /\ Len(top10) = Min(TopN, Len(papers))
        /\ \A i \in 1..Len(top10) : \A j \in 1..Len(top10) :
              i < j => top10[i].score >= top10[j].score
        /\ \A p \in 1..Len(top10) : top10[p].rank = p

C5_Witness ==
    /\ Ranked
    /\ Len(papers) > TopN
    /\ Len(top10) = TopN
    /\ top10[1].score > top10[TopN].score

KeptIds == {top10[i].url : i \in 1..Len(top10)}

Kept(id) == id \in KeptIds

\* C6: the rows kept are papers of the input with their own scores, each
\* once; no paper left out scores higher than a kept one; among equal scores
\* input order decides both the order of the rows and which ones are cut.
C6_StableSelection ==
    Ranked =>
        /\ \A i \in 1..Len(top10) :
              /\ top10[i].url \in EntryIds(papers)
              /\ top10[i].score = analyzer[top10[i].url]
        /\ \A i \in 1..Len(top10) : \A j \in 1..Len(top10) :
              i < j =>
                 \/ top10[i].score > top10[j].score
                 \/ /\ top10[i].score = top10[j].score
                    /\ top10[i].url < top10[j].url
        /\ \A id \in EntryIds(papers) \ KeptIds : \A i \in 1..Len(top10) :
              \/ analyzer[id] < top10[i].score
              \/ analyzer[id] = top10[i].score /\ top10[i].url < id

C6_Witness ==
    /\ Ranked
    /\ Len(papers) > TopN
    /\ \E id \in EntryIds(papers) :
          ~Kept(id) /\ analyzer[id] = top10[TopN].score
    /\ top10[1].score = top10[2].score
    /\ top10[1].url > 1

Terminal == {"Done", "Failed"}

StageIdx(st) ==
    CASE st = "Idle" -> 0
      [] st = "Collecting" -> 1
      [] st = "Ranking" -> 2
      [] st = "Analyzing" -> 3
      [] st = "Persisting" -> 4
      [] st = "Rendering" -> 5
      [] st = "Notifying" -> 6
      [] st = "Done" -> 7
      [] st = "Failed" -> 8

\* C7: the run moves only from a stage to the next one of Idle, Collecting,
\* Ranking, Analyzing, Persisting, Rendering, Notifying, Done, or to Failed;
\* nothing happens after Done or Failed; every run ends in Done or Failed.
C7_ForwardOnly ==
    /\ [][/\ stage' # stage =>
               /\ stage \notin Terminal
               /\ \/ stage' = "Failed"
                  \/ StageIdx(stage') = StageIdx(stage) + 1
          /\ stage \in Terminal => UNCHANGED vars]_vars
    /\ <>[](stage \in Terminal)

C7_Witness ==
    /\ stage = "Done"
    /\ email_sent /\ report_rendered /\ json_written /\ csv_written
    /\ Len(analysis_results) >= 2
    /\ error_log = "none"

\* C8: once the analysis of a top-10 paper has failed the run is over: no
\* analysis JSON, no HTML report, no email, the remaining papers are not
\* analyzed, and the error is in the log of the run.
C8_AnalysisFailureAborts ==
    /\ [](error_log = "analysis" =>
            /\ stage = "Failed"
            /\ ~json_written /\ ~report_rendered /\ ~email_sent
            /\ Len(analysis_results) < Len(top10))
    /\ [][error_log = "analysis" => UNCHANGED vars]_vars
    /\ [][(stage = "Analyzing" /\ stage' = "Failed") => error_log' = "analysis"]_vars

C8_Witness ==
    /\ error_log = "analysis"
    /\ stage = "Failed"
    /\ Len(analysis_results) >= 1
    /\ Len(top10) >= Len(analysis_results) + 2

\* C9: the window start moves only while nothing is collected and fewer than
\* 3 extensions were made; once a paper is collected, the next item older
\* than the window start ends the scan, and nothing is collected after that.
C9_ExtendOnlyWhileEmpty ==
    [][/\ target_start' # target_start =>
            Len(papers) = 0 /\ error_retries < MaxRetries
       /\ (Scanning /\ HasNext /\ Len(papers) > 0 /\ NextItem < target_start) =>
            scan_pc' = "returned" /\ papers' = papers
       /\ scan_pc = "returned" => papers' = papers /\ pos' = pos]_vars

C9_Witness ==
    /\ scan_pc = "returned"
    /\ Len(papers) > 0
    /\ error_retries > 0
    /\ feed[pos] < target_start
    /\ pos < Len(feed)
    /\ InRange(feed[pos + 1], target_start, target_end)

\* C10 as stated: on a descending feed that raises no error, every item read
\* whose submission time lies in the final window is returned.
C10_Original ==
    (scan_pc = "returned" /\ IsSortedDesc(feed) /\ ~feed_error) =>
        \A i \in 1..pos :
            InRange(feed[i], target_start, target_end) => Collected(i)

====
